---- MODULE Spec2Model ----
(***************************************************************************)
(* Model of the connection supervisor `_run` of                            *)
(* src/SH_discord_bot_split/main.py: one coroutine that, per attempt,      *)
(* runs network diagnostics, spawns the client task and the readiness      *)
(* watchdog, races them under the ready-timeout, and either blocks on the  *)
(* client (READY) or cleans up and retries with exponential backoff.       *)
(*                                                                         *)
(* The wrapped client (client.start, client.wait_until_ready,              *)
(* client.close) is opaque: its tasks finish at any event-loop iteration   *)
(* in which the supervisor is suspended at an await, with any outcome.     *)
(* Seconds are integers; the code only doubles and takes minima of them.   *)
(***************************************************************************)
EXTENDS Integers, Sequences, FiniteSets, TLC

\* Bounds of the model.
MaxAttempts == 3
MaxRetries == 3
MaxCeiling == 5

VARIABLES
    retries_env,   \* DISCORD_CONNECT_RETRIES
    backoff_max,   \* DISCORD_CONNECT_BACKOFF_MAX
    attempt,       \* attempt counter
    backoff,       \* stored backoff value
    pc,            \* position of the supervisor coroutine
    err,           \* exception that left _run ("none" while it has not)
    start_task,    \* state of the task bound to start_task
    ready_task,    \* state of the task bound to ready_task
    old_start,     \* client tasks of earlier attempts that are still live
    old_ready,     \* watchdog tasks of earlier attempts still pending
    probes,        \* result of each sub-probe of the diagnostics just run
    ready_seen,    \* this attempt logged "Discord READY"
    handled,       \* except-clauses entered so far, in order
    calls,         \* calls made on the tasks and the client in this attempt
    sleeps         \* arguments of the backoff sleeps so far, in order

vars ==
    <<retries_env, backoff_max, attempt, backoff, pc, err, start_task,
      ready_task, old_start, old_ready, probes, ready_seen, handled, calls,
      sleeps>>

Min(a, b) == IF b < a THEN b ELSE a

\* Exceptions the client task can end with ("ok": it returned).
ClientOutcomes ==
    {"ok", "LoginFailure", "PrivilegedIntentsRequired", "TimeoutError", "Exception"}

\* Outcomes of the watchdog client.wait_until_ready().
ReadyOutcomes == {"ready", "error"}

Fatal == {"LoginFailure", "PrivilegedIntentsRequired"}

ProbeNames == {"dns_gateway", "dns_discord", "tcp", "http"}

NotRun == [p \in ProbeNames |-> "notrun"]

\* A task that has been created and has not finished.
Live(t) == t \in {"pending", "cancelling"}

\* A task for which Task.done() is true.
Done(t) == t \notin {"none", "pending", "cancelling"}

\* Awaits of _run: other tasks run only while the supervisor is suspended.
Suspended == {"diag", "wait", "await_start", "closing", "sleep"}

\* The except-clause of lines 159-174 that catches exception e.
Clause(e) ==
    CASE e = "LoginFailure" -> "LoginFailure"
      [] e = "PrivilegedIntentsRequired" -> "PrivilegedIntentsRequired"
      [] e = "TimeoutError" -> "TimeoutError"
      [] OTHER -> "Exception"

\* Variant of SleepFor that forgets the ceiling.
SleepFor_NoCeiling(b, c) == b

\* sleep_s of line 189.
SleepFor(b, c) == Min(b, c)

\* Variant of NextBackoff that doubles without the ceiling.
NextBackoff_NoCeiling(b, c) == b * 2

\* New backoff of line 192.
NextBackoff(b, c) == Min(b * 2, c)

\* Variant of LimitReached that allows one attempt too many.
LimitReached_OffByOne(r, a) == r > 0 /\ a > r

\* Variant of LimitReached that forgets that 0 means no limit.
LimitReached_ZeroIsLimit(r, a) == a >= r

\* The retry limit check of line 186.
LimitReached(r, a) == r > 0 /\ a >= r

Init ==
    /\ retries_env \in 0..MaxRetries
    /\ backoff_max \in (0 - 1)..MaxCeiling
    /\ attempt = 0
    /\ backoff = 2
    /\ pc = "loop"
    /\ err = "none"
    /\ start_task = "none"
    /\ ready_task = "none"
    /\ old_start = 0
    /\ old_ready = 0
    /\ probes = NotRun
    /\ ready_seen = FALSE
    /\ handled = <<>>
    /\ calls = <<>>
    /\ sleeps = <<>>

\* Lines 124-126: top of the loop.
StartAttempt ==
    /\ pc = "loop"
    /\ attempt < MaxAttempts
    /\ attempt' = attempt + 1
    /\ ready_seen' = FALSE
    /\ calls' = <<>>
    /\ pc' = "diag"
    /\ UNCHANGED <<retries_env, backoff_max, backoff, err, start_task,
                   ready_task, old_start, old_ready, probes, handled, sleeps>>

\* Variant of Diagnose in which a failing sub-probe is not caught.
Diagnose_ProbeErrorEscapes ==
    /\ pc = "diag"
    /\ \E r \in [ProbeNames -> {"ok", "failed"}] :
          /\ probes' = r
          /\ IF \E p \in ProbeNames : r[p] = "failed"
               THEN pc' = "raised" /\ err' = "OSError"
               ELSE pc' = "spawn" /\ err' = err
    /\ UNCHANGED <<retries_env, backoff_max, attempt, backoff, start_task,
                   ready_task, old_start, old_ready, ready_seen, handled,
                   calls, sleeps>>

\* Lines 79-119, 127: every sub-probe runs and its failure is logged.
Diagnose ==
    /\ pc = "diag"
    /\ \E r \in [ProbeNames -> {"ok", "failed"}] : probes' = r
    /\ pc' = "spawn"
    /\ UNCHANGED <<retries_env, backoff_max, attempt, backoff, err,
                   start_task, ready_task, old_start, old_ready, ready_seen,
                   handled, calls, sleeps>>

\* Lines 129-133: both names are rebound to new tasks; the tasks they
\* were bound to keep running if they had not finished. The probe results
\* were locals of _diagnose_gateway (line 127 keeps nothing of them).
Spawn ==
    /\ pc = "spawn"
    /\ old_start' = old_start + (IF Live(start_task) THEN 1 ELSE 0)
    /\ old_ready' = old_ready + (IF Live(ready_task) THEN 1 ELSE 0)
    /\ start_task' = "pending"
    /\ ready_task' = "pending"
    /\ probes' = NotRun
    /\ pc' = "wait"
    /\ UNCHANGED <<retries_env, backoff_max, attempt, backoff, err,
                   ready_seen, handled, calls, sleeps>>

\* Variant of Except without the two re-raising clauses.
Except_NoReraise(e) ==
    /\ handled' = Append(handled, Clause(e))
    /\ pc' = "cleanup"
    /\ err' = err

\* Variant of Except in which every clause re-raises.
Except_AllReraise(e) ==
    /\ handled' = Append(handled, Clause(e))
    /\ pc' = "raised"
    /\ err' = e

\* Lines 159-174: exception e raised inside the try block.
Except(e) ==
    /\ handled' = Append(handled, Clause(e))
    /\ IF e \in Fatal
         THEN pc' = "raised" /\ err' = e
         ELSE pc' = "cleanup" /\ err' = err

\* Variant of WaitTimeout that does not look at an empty done set.
WaitTimeout_TakenForReady ==
    /\ pc = "wait"
    /\ ~Done(start_task) /\ ~Done(ready_task)
    /\ ready_seen' = TRUE
    /\ calls' = Append(calls, "await start_task")
    /\ pc' = "await_start"
    /\ UNCHANGED <<retries_env, backoff_max, attempt, backoff, err,
                   start_task, ready_task, old_start, old_ready, probes,
                   handled, sleeps>>

\* Lines 133-140: the wait ends by the timeout with no task done.
WaitTimeout ==
    /\ pc = "wait"
    /\ ~Done(start_task) /\ ~Done(ready_task)
    /\ Except("TimeoutError")
    /\ UNCHANGED <<retries_env, backoff_max, attempt, backoff, start_task,
                   ready_task, old_start, old_ready, probes, ready_seen,
                   calls, sleeps>>

\* Variant of WaitReturn that cancels the watchdog without asking done().
WaitReturn_CancelUnguarded ==
    /\ pc = "wait"
    /\ Done(start_task) \/ Done(ready_task)
    /\ IF Done(start_task)
         THEN /\ Except(IF start_task = "ok" THEN "RuntimeError" ELSE start_task)
              /\ UNCHANGED <<ready_seen, calls, ready_task>>
         ELSE /\ ready_seen' = TRUE
              /\ ready_task' = ready_task
              /\ calls' = calls \o <<"ready_task.cancel", "await start_task">>
              /\ pc' = "await_start"
              /\ UNCHANGED <<err, handled>>
    /\ UNCHANGED <<retries_env, backoff_max, attempt, backoff, start_task,
                   old_start, old_ready, probes, sleeps>>

\* Variant of WaitReturn that takes a clean stop of the client task before
\* READY for the normal end of the run.
WaitReturn_CleanStopReturns ==
    /\ pc = "wait"
    /\ Done(start_task) \/ Done(ready_task)
    /\ IF Done(start_task)
         THEN /\ IF start_task = "ok"
                   THEN pc' = "returned" /\ UNCHANGED <<err, handled>>
                   ELSE Except(start_task)
              /\ UNCHANGED <<ready_seen, calls, ready_task>>
         ELSE /\ ready_seen' = TRUE
              /\ ready_task' = ready_task
              /\ calls' = Append(calls, "await start_task")
              /\ pc' = "await_start"
              /\ UNCHANGED <<err, handled>>
    /\ UNCHANGED <<retries_env, backoff_max, attempt, backoff, start_task,
                   old_start, old_ready, probes, sleeps>>

\* Lines 133-156: the wait ends with at least one task done.
WaitReturn ==
    /\ pc = "wait"
    /\ Done(start_task) \/ Done(ready_task)
    /\ IF Done(start_task)
         THEN /\ Except(IF start_task = "ok" THEN "RuntimeError" ELSE start_task)
              /\ UNCHANGED <<ready_seen, calls, ready_task>>
         ELSE /\ ready_seen' = TRUE
              /\ IF ~Done(ready_task)
                   THEN /\ ready_task' = "cancelled"
                        /\ calls' = calls \o <<"ready_task.cancel", "await start_task">>
                   ELSE /\ ready_task' = ready_task
                        /\ calls' = Append(calls, "await start_task")
              /\ pc' = "await_start"
              /\ UNCHANGED <<err, handled>>
    /\ UNCHANGED <<retries_env, backoff_max, attempt, backoff, start_task,
                   old_start, old_ready, probes, sleeps>>

\* Lines 156-157: the awaited client task has finished.
AwaitStartReturns ==
    /\ pc = "await_start"
    /\ Done(start_task)
    /\ IF start_task = "ok"
         THEN pc' = "returned" /\ UNCHANGED <<err, handled>>
         ELSE Except(start_task)
    /\ UNCHANGED <<retries_env, backoff_max, attempt, backoff, start_task,
                   ready_task, old_start, old_ready, probes, ready_seen,
                   calls, sleeps>>

\* Lines 177-178: client.close() is called and awaited.
CallClose ==
    /\ pc = "cleanup"
    /\ calls' = Append(calls, "client.close")
    /\ pc' = "closing"
    /\ UNCHANGED <<retries_env, backoff_max, attempt, backoff, err,
                   start_task, ready_task, old_start, old_ready, probes,
                   ready_seen, handled, sleeps>>

\* Variant of CloseReturns in which an error of close() is not swallowed.
CloseReturns_ErrorEscapes ==
    /\ pc = "closing"
    /\ \E raised \in BOOLEAN :
          IF raised THEN pc' = "raised" /\ err' = "Exception"
                    ELSE pc' = "cancel" /\ err' = err
    /\ UNCHANGED <<retries_env, backoff_max, attempt, backoff, start_task,
                   ready_task, old_start, old_ready, probes, ready_seen,
                   handled, calls, sleeps>>

\* Lines 178-180: close() returns or raises; either way execution goes on.
CloseReturns ==
    /\ pc = "closing"
    /\ \E raised \in BOOLEAN : pc' = "cancel"
    /\ UNCHANGED <<retries_env, backoff_max, attempt, backoff, err,
                   start_task, ready_task, old_start, old_ready, probes,
                   ready_seen, handled, calls, sleeps>>

\* Lines 181-184: cancellation of the client task is requested.
CancelStartTask ==
    /\ pc = "cancel"
    /\ calls' = Append(calls, "start_task.cancel")
    /\ start_task' = IF start_task = "pending" THEN "cancelling" ELSE start_task
    /\ pc' = "policy"
    /\ UNCHANGED <<retries_env, backoff_max, attempt, backoff, err,
                   ready_task, old_start, old_ready, probes, ready_seen,
                   handled, sleeps>>

\* Variant of RetryPolicy that checks the limit only after the sleep was
\* started.
RetryPolicy_SleepBeforeLimit ==
    /\ pc = "policy"
    /\ sleeps' = Append(sleeps, SleepFor(backoff, backoff_max))
    /\ calls' = Append(calls, "sleep")
    /\ IF LimitReached(retries_env, attempt)
         THEN pc' = "raised" /\ err' = "RuntimeError"
         ELSE pc' = "sleep" /\ err' = err
    /\ UNCHANGED <<retries_env, backoff_max, attempt, backoff, start_task,
                   ready_task, old_start, old_ready, probes, ready_seen,
                   handled>>

\* Lines 186-191: give up at the retry limit, else start the backoff sleep.
RetryPolicy ==
    /\ pc = "policy"
    /\ IF LimitReached(retries_env, attempt)
         THEN /\ pc' = "raised"
              /\ err' = "RuntimeError"
              /\ UNCHANGED <<calls, sleeps>>
         ELSE /\ pc' = "sleep"
              /\ sleeps' = Append(sleeps, SleepFor(backoff, backoff_max))
              /\ calls' = Append(calls, "sleep")
              /\ err' = err
    /\ UNCHANGED <<retries_env, backoff_max, attempt, backoff, start_task,
                   ready_task, old_start, old_ready, probes, ready_seen,
                   handled>>

\* Lines 191-192: the sleep is over; the backoff doubles up to the ceiling.
SleepDone ==
    /\ pc = "sleep"
    /\ backoff' = NextBackoff(backoff, backoff_max)
    /\ pc' = "loop"
    /\ UNCHANGED <<retries_env, backoff_max, attempt, err, start_task,
                   ready_task, old_start, old_ready, probes, ready_seen,
                   handled, calls, sleeps>>

\* Line 129: the client task ends on its own, by returning or raising.
ClientTaskEnds ==
    /\ pc \in Suspended
    /\ start_task = "pending"
    /\ \E o \in ClientOutcomes : start_task' = o
    /\ UNCHANGED <<retries_env, backoff_max, attempt, backoff, pc, err,
                   ready_task, old_start, old_ready, probes, ready_seen,
                   handled, calls, sleeps>>

\* Line 182: a requested cancellation ends the client task.
CancelTakesEffect ==
    /\ pc \in Suspended
    /\ start_task = "cancelling"
    /\ start_task' = "cancelled"
    /\ UNCHANGED <<retries_env, backoff_max, attempt, backoff, pc, err,
                   ready_task, old_start, old_ready, probes, ready_seen,
                   handled, calls, sleeps>>

\* Line 130: the watchdog ends, by the ready signal of a running client or
\* by an error of wait_until_ready().
ReadyTaskEnds ==
    /\ pc \in Suspended
    /\ ready_task = "pending"
    /\ \E o \in ReadyOutcomes :
          /\ (o = "ready") => Live(start_task)
          /\ ready_task' = o
    /\ UNCHANGED <<retries_env, backoff_max, attempt, backoff, pc, err,
                   start_task, old_start, old_ready, probes, ready_seen,
                   handled, calls, sleeps>>

\* A client task of an earlier attempt ends.
OldClientTaskEnds ==
    /\ pc \in Suspended
    /\ old_start > 0
    /\ old_start' = old_start - 1
    /\ UNCHANGED <<retries_env, backoff_max, attempt, backoff, pc, err,
                   start_task, ready_task, old_ready, probes, ready_seen,
                   handled, calls, sleeps>>

\* A watchdog of an earlier attempt ends.
OldReadyTaskEnds ==
    /\ pc \in Suspended
    /\ old_ready > 0
    /\ old_ready' = old_ready - 1
    /\ UNCHANGED <<retries_env, backoff_max, attempt, backoff, pc, err,
                   start_task, ready_task, old_start, probes, ready_seen,
                   handled, calls, sleeps>>

\* Variant of ExternalCancel in which a cancellation that arrives during the
\* backoff sleep is swallowed and the loop goes on.
ExternalCancel_SleepSwallows ==
    /\ pc \in Suspended
    /\ IF pc = "sleep"
         THEN pc' = "loop" /\ err' = err
         ELSE pc' = "cancelled" /\ err' = "CancelledError"
    /\ start_task' = IF pc = "await_start" /\ start_task = "pending"
                       THEN "cancelling" ELSE start_task
    /\ UNCHANGED <<retries_env, backoff_max, attempt, backoff, ready_task,
                   old_start, old_ready, probes, ready_seen, handled, calls,
                   sleeps>>

\* Lines 195-196: asyncio.run cancels the main task on shutdown; the
\* CancelledError is a BaseException, so no except-clause of _run catches
\* it. Cancelling a task that awaits another task cancels that one too.
ExternalCancel ==
    /\ pc \in Suspended
    /\ pc' = "cancelled"
    /\ err' = "CancelledError"
    /\ start_task' = IF pc = "await_start" /\ start_task = "pending"
                       THEN "cancelling" ELSE start_task
    /\ UNCHANGED <<retries_env, backoff_max, attempt, backoff, ready_task,
                   old_start, old_ready, probes, ready_seen, handled, calls,
                   sleeps>>

Next ==
    \/ StartAttempt
    \/ Diagnose
    \/ Spawn
    \/ WaitTimeout
    \/ WaitReturn
    \/ AwaitStartReturns
    \/ CallClose
    \/ CloseReturns
    \/ CancelStartTask
    \/ RetryPolicy
    \/ SleepDone
    \/ ClientTaskEnds
    \/ CancelTakesEffect
    \/ ReadyTaskEnds
    \/ OldClientTaskEnds
    \/ OldReadyTaskEnds
    \/ ExternalCancel

Spec == Init /\ [][Next]_vars

\* The steps of the supervisor coroutine that need nothing from the client:
\* the event loop resumes it after each of these awaits.
SupervisorStep ==
    \/ StartAttempt
    \/ Diagnose
    \/ Spawn
    \/ WaitTimeout
    \/ WaitReturn
    \/ CallClose
    \/ CloseReturns
    \/ CancelStartTask
    \/ RetryPolicy
    \/ SleepDone

\* Spec with the event loop's guarantee that a resumable supervisor runs.
FairSpec == Spec /\ WF_vars(SupervisorStep)

TypeOK ==
    /\ retries_env \in 0..MaxRetries
    /\ backoff_max \in (0 - 1)..MaxCeiling
    /\ attempt \in 0..MaxAttempts
    /\ pc \in {"loop", "diag", "spawn", "wait", "await_start", "cleanup",
               "closing", "cancel", "policy", "sleep", "returned", "raised",
               "cancelled"}
    /\ err \in {"none", "LoginFailure", "PrivilegedIntentsRequired",
                "RuntimeError", "CancelledError"}
    /\ start_task \in {"none", "pending", "cancelling", "cancelled"} \cup ClientOutcomes
    /\ ready_task \in {"none", "pending", "cancelled"} \cup ReadyOutcomes
    /\ old_start \in 0..MaxAttempts
    /\ old_ready \in 0..MaxAttempts
    /\ ready_seen \in BOOLEAN
    /\ Len(sleeps) <= MaxAttempts

----------------------------------------------------------------------------
\* Number of occurrences of x in the sequence s.
Count(s, x) == Cardinality({i \in 1..Len(s) : s[i] = x})

\* C1 (as stated): the k-th backoff sleep lasts min(2 * 2^(k-1), backoff_max),
\* for every ceiling value.
C1_SleepFormulaAnyCeiling ==
    \A k \in 1..Len(sleeps) : sleeps[k] = Min(2 * 2^(k - 1), backoff_max)

\* C1 (amended): for every ceiling value that is not negative, including
\* ceilings smaller than the base 2, the k-th backoff sleep lasts
\* min(2 * 2^(k-1), backoff_max).
C1_SleepFormula ==
    backoff_max >= 0 =>
        \A k \in 1..Len(sleeps) : sleeps[k] = Min(2 * 2^(k - 1), backoff_max)

\* Three sleeps under ceiling 3: the first below the ceiling, the third capped.
C1_Witness ==
    /\ backoff_max = 3
    /\ Len(sleeps) = 3
    /\ sleeps[1] = 2
    /\ sleeps[3] = 3

C4_ReadyIsTerminal ==
    ready_seen =>
        /\ pc \in {"await_start", "returned", "raised", "cancelled"}
        /\ pc = "returned" => start_task = "ok"
        /\ pc = "raised" => err = start_task
        /\ Count(calls, "client.close") = 0
        /\ Count(calls, "sleep") = 0

\* C5 (as stated): in an attempt that saw readiness the watchdog was
\* cancelled exactly once, the client task is awaited exactly once and the
\* watchdog is not pending.
C5_WatchdogCancelledOnce ==
    ready_seen =>
        /\ Count(calls, "ready_task.cancel") = 1
        /\ Count(calls, "await start_task") = 1
        /\ ready_task # "pending"

\* C5 (amended): in an attempt in which the supervisor saw readiness the
\* watchdog had already finished by itself, so cancel() is never called on
\* it; the client task is awaited exactly once and the watchdog of that
\* attempt is not pending.
C5_WatchdogFinishedClientAwaitedOnce ==
    ready_seen =>
        /\ ready_task \in ReadyOutcomes
        /\ Count(calls, "ready_task.cancel") = 0
        /\ Count(calls, "await start_task") = 1

\* Readiness came first; the supervisor is blocked on the running client.
C5_Witness ==
    /\ ready_seen
    /\ pc = "await_start"
    /\ ready_task = "ready"
    /\ start_task = "pending"
    /\ calls = <<"await start_task">>

\* C6: no watchdog of an earlier attempt is ever pending, and once an
\* attempt is over and the supervisor goes on (retry policy, sleep, next
\* loop turn) the watchdog of that attempt is not pending either.
C6_WatchdogNeverOutlivesAttempt ==
    /\ old_ready = 0
    /\ pc \in {"policy", "sleep", "loop"} => ready_task # "pending"

\* What the attempt shows of its classification: READY, or the last
\* except-clause entered.
Observed == IF ready_seen THEN "READY" ELSE handled[Len(handled)]

\* The classification lines 139-149 give for client task st and watchdog rt.
Expected(st, rt) ==
    IF Done(st) THEN (IF st = "ok" THEN "Exception" ELSE Clause(st))
    ELSE IF Done(rt) THEN "READY" ELSE "TimeoutError"

\* C9: whatever sub-probes fail, the diagnostics step completes normally with
\* every sub-probe run, touching nothing but the probe results; and the
\* classification of the attempt depends on the two tasks only, so it is the
\* one an attempt with all probes succeeding gets.
C9_DiagnosticsNeverFail ==
    /\ [][(pc = "diag" /\ pc' \notin {"diag", "cancelled"})
          => /\ pc' = "spawn"
             /\ \A p \in ProbeNames : probes'[p] \in {"ok", "failed"}
             /\ UNCHANGED <<attempt, backoff, err, start_task, ready_task,
                            ready_seen, handled, calls, sleeps>>]_vars
    /\ [][(pc = "wait" /\ pc' \notin {"wait", "cancelled"})
          => Observed' = Expected(start_task, ready_task)]_vars

\* The diagnostics of the second attempt returned with all four sub-probes
\* failed, and the supervisor is about to spawn the tasks.
C9_Witness ==
    /\ \A p \in ProbeNames : probes[p] = "failed"
    /\ pc = "spawn"
    /\ attempt = 2
    /\ err = "none"

\* C10: no attempt takes both the success path (READY, await the client) and
\* the failure path (close and cancel, then retry policy; or a fatal error
\* before READY), and an attempt that is over has taken one of them.
C10_ExactlyOnePath ==
    /\ ~(ready_seen /\ (pc = "cleanup" \/ Count(calls, "client.close") > 0))
    /\ ((pc = "loop" /\ attempt > 0) \/ pc \in {"returned", "raised"})
          => \/ ready_seen
             \/ Count(calls, "client.close") > 0
             \/ err \in Fatal

\* C7: with max_retries = 0 the run never ends by the retry limit, and after
\* every retryable failure (the attempt is in cleanup) the next attempt
\* starts, unless the run is cancelled from outside.
C7_UnboundedRetries ==
    /\ [](retries_env = 0 => ~(pc = "raised" /\ err = "RuntimeError"))
    /\ \A a \in 1..(MaxAttempts - 1) :
          (retries_env = 0 /\ pc = "cleanup" /\ attempt = a)
              ~> (attempt = a + 1 \/ pc = "cancelled")

\* Without a limit a third attempt runs after two failures of different kinds.
C7_Witness ==
    /\ retries_env = 0
    /\ attempt = 3
    /\ pc = "wait"
    /\ handled = <<"TimeoutError", "Exception">>
    /\ Len(sleeps) = 2

\* C8: when the wait ends with neither task done the attempt is handled by
\* the TimeoutError clause and goes to cleanup; and when retries remain the
\* attempt counter is then increased by one, unless the run is cancelled
\* from outside.
C8_TimeoutRetries ==
    /\ [][(pc = "wait" /\ ~Done(start_task) /\ ~Done(ready_task)
             /\ pc' \notin {"wait", "cancelled"})
          => /\ pc' = "cleanup"
             /\ handled' = Append(handled, "TimeoutError")
             /\ ~ready_seen'
             /\ attempt' = attempt]_vars
    /\ \A a \in 1..(MaxAttempts - 1) :
          (/\ pc = "cleanup" /\ attempt = a /\ ~ready_seen
           /\ ~Done(start_task) /\ ~Done(ready_task)
           /\ ~LimitReached(retries_env, a))
              ~> (attempt = a + 1 \/ pc = "cancelled")

\* The second attempt runs after the first timed out: the first client task
\* was still pending when its cancellation was requested.
C8_Witness ==
    /\ attempt = 2
    /\ pc = "diag"
    /\ handled = <<"TimeoutError">>
    /\ start_task \in {"cancelling", "cancelled"}
    /\ Len(sleeps) = 1

\* C11 (as stated): in every reachable state, from process start onward, the
\* stored backoff is at most the configured ceiling.
C11_BackoffNeverAboveCeiling == backoff <= backoff_max

\* C11 (amended): the stored backoff is at most the ceiling in every state
\* after the first backoff update (the first sleep is over); before it the
\* stored value is the base 2, whatever the ceiling; and every sleep lasts
\* at most the ceiling.
C11_BackoffAtMostCeilingAfterUpdate ==
    /\ backoff <= backoff_max \/ (backoff = 2 /\ attempt <= 1)
    /\ (attempt >= 2 \/ (attempt = 1 /\ pc = "loop")) => backoff <= backoff_max
    /\ \A k \in 1..Len(sleeps) : sleeps[k] <= backoff_max

\* Under ceiling 3 the stored backoff reached the ceiling after two updates.
C11_Witness ==
    /\ backoff_max = 3
    /\ backoff = 3
    /\ Len(sleeps) = 2
    /\ pc = "loop"

\* C12: the run leaves _run with an exception only for a fatal error or for
\* the retry limit of a positive max_retries, and returns only when the
\* client task ended after READY; a timeout, an early clean stop or another
\* non-fatal exception goes to cleanup, and after cleanup the run sleeps
\* and goes on while retries remain.
C12_RetryableContained ==
    /\ [](pc = "raised" =>
            \/ err \in Fatal
            \/ (err = "RuntimeError" /\ retries_env > 0 /\ attempt >= retries_env
                  /\ Count(calls, "client.close") = 1))
    /\ [](pc = "returned" => ready_seen /\ start_task = "ok")
    /\ [][(pc \in {"wait", "await_start"}
             /\ pc' \in {"raised", "returned", "cleanup"}
             /\ (Done(start_task) => start_task \notin Fatal \cup {"ok"}))
          => pc' = "cleanup" /\ err' = "none"]_vars
    /\ [][(pc = "policy" /\ ~(retries_env > 0 /\ attempt >= retries_env))
          => pc' = "sleep" /\ err' = "none"]_vars

\* An early clean stop and then a client exception were both contained: the
\* run is in its second backoff sleep.
C12_Witness ==
    /\ pc = "sleep"
    /\ handled = <<"Exception", "Exception">>
    /\ start_task = "Exception"
    /\ ~ready_seen
    /\ err = "none"
    /\ Len(sleeps) = 2

\* close() and then the cancellation of the client task were each called
\* once in this attempt, in that order.
CleanedUp ==
    /\ Count(calls, "client.close") = 1
    /\ Count(calls, "start_task.cancel") = 1
    /\ \E i, j \in 1..Len(calls) :
          i < j /\ calls[i] = "client.close" /\ calls[j] = "start_task.cancel"

\* C13 (as stated): whenever the supervisor applies the retry policy or has
\* ended with an error, fatal errors included, it has called close() and
\* then cancelled the client task in this attempt.
C13_CleanupOnEveryFailure ==
    pc \in {"policy", "sleep", "raised"} => CleanedUp

\* C13 (amended): on every non-fatal non-success outcome the supervisor calls
\* close() and then requests cancellation of the client task, in that order
\* and with an error of close() swallowed, before the retry policy; on a
\* fatal error it re-raises without calling close() or cancel().
C13_CleanupOnRetryableFailure ==
    /\ []((pc \in {"policy", "sleep"} \/ (pc = "raised" /\ err = "RuntimeError")
             \/ (pc = "loop" /\ attempt > 0)) => CleanedUp)
    /\ [](pc = "sleep" => calls[Len(calls)] = "sleep"
                            /\ calls[Len(calls) - 1] = "start_task.cancel")
    /\ []((pc = "raised" /\ err \in Fatal)
            => Count(calls, "client.close") = 0
               /\ Count(calls, "start_task.cancel") = 0)
    /\ [][(pc = "closing" /\ pc' \notin {"closing", "cancelled"})
          => pc' = "cancel" /\ err' = "none"]_vars
    /\ [][pc = "cancel" => pc' = "policy"]_vars

\* The only allowed attempt timed out: the client was closed, the pending
\* client task was asked to cancel, and the run ended by the retry limit.
C13_Witness ==
    /\ pc = "raised"
    /\ err = "RuntimeError"
    /\ retries_env = 1
    /\ calls = <<"client.close", "start_task.cancel">>
    /\ start_task = "cancelling"

\* C14: no client task of an earlier attempt is live once a later attempt
\* has spawned its own: at most one client task is live at any time.
C14_OneLiveClientTask == old_start = 0

C16_ReadyFirstIsSuccess ==
    [][(pc = "wait" /\ ready_task = "ready" /\ pc' \notin {"wait", "cancelled"})
       => /\ ~Done(start_task)
          /\ ready_seen'
          /\ pc' = "await_start"]_vars

\* C17: a client task that returns without error before READY makes the
\* attempt a retryable failure: the supervisor does not return and does not
\* log READY, the generic clause handles it, and cleanup and the retry
\* policy follow as for any non-fatal failure.
C17_EarlyStopRetryable ==
    /\ [][(pc = "wait" /\ start_task = "ok" /\ pc' \notin {"wait", "cancelled"})
          => /\ pc' = "cleanup"
             /\ ~ready_seen'
             /\ err' = "none"
             /\ handled' = Append(handled, "Exception")
             /\ attempt' = attempt]_vars
    /\ [](pc = "returned" => ready_seen)
    /\ []((start_task = "ok" /\ ~ready_seen /\ pc \in {"policy", "sleep"})
            => CleanedUp)

\* The first client task returned before READY; the supervisor cleaned up
\* and is in the backoff sleep before the second attempt.
C17_Witness ==
    /\ pc = "sleep"
    /\ attempt = 1
    /\ start_task = "ok"
    /\ ~ready_seen
    /\ handled = <<"Exception">>
    /\ calls = <<"client.close", "start_task.cancel", "sleep">>

\* C18: the backoff sleep can be cancelled from outside; a cancellation
\* that arrives during the sleep leaves _run as CancelledError with the
\* attempt counter and the stored backoff unchanged, and nothing follows:
\* no further attempt starts.
C18_SleepInterruptible ==
    /\ [](pc = "sleep" => ENABLED (Next /\ pc' = "cancelled"))
    /\ [][(pc = "sleep" /\ pc' # "sleep" /\ pc' # "loop")
          => /\ pc' = "cancelled"
             /\ err' = "CancelledError"
             /\ attempt' = attempt
             /\ backoff' = backoff
             /\ sleeps' = sleeps]_vars
    /\ [][pc = "cancelled" => UNCHANGED vars]_vars

\* The second sleep was interrupted: under ceiling 5 the stored backoff is
\* still the 4 of the first update and the attempt counter is still 2.
C18_Witness ==
    /\ pc = "cancelled"
    /\ err = "CancelledError"
    /\ Len(calls) = 3
    /\ calls[3] = "sleep"
    /\ attempt = 2
    /\ Len(sleeps) = 2
    /\ backoff_max = 5
    /\ backoff = 4

\* C19: right after classification the attempt is in the TimeoutError clause
\* exactly when the wait ended with neither task done; an exception of the
\* client task, a timeout-type one included, is in the generic clause.
C19_TimeoutOnlyByDeadline ==
    pc = "cleanup" =>
        /\ handled[Len(handled)] = "TimeoutError"
              <=> (~ready_seen /\ ~Done(start_task) /\ ~Done(ready_task))
        /\ start_task \in {"TimeoutError", "Exception"}
              => handled[Len(handled)] = "Exception"

\* C20: READY is logged and the client task awaited only in an attempt whose
\* watchdog completed with the ready signal.
C20_SuccessOnlyWhenReady == ready_seen => ready_task = "ready"
====
